---- MODULE Spec2Model ----
(***************************************************************************)
(* Model of churn_review.py: the loaders, the calendar arithmetic, the     *)
(* churn selector, the review-plan builder and the run_review pipeline.    *)
(*                                                                         *)
(* Python values are encoded as follows.                                   *)
(*   None            <<>>                                                  *)
(*   a str s         <<s>>      (so that None and "" stay distinct)        *)
(*   a date          [year, month, day]                                    *)
(*   a raised error  a result record whose err field names the exception   *)
(***************************************************************************)
EXTENDS Integers, Sequences, FiniteSets, TLC

\* ------------------------------------------------------------------ bounds

\* Longest account sequence handed to select_recent_churns / build_review_plan.
MaxAccounts == 2

\* Lookback windows are drawn from -MaxMonths .. MaxMonths.
MaxMonths == 13

\* ------------------------------------------------- datetime.date (library)

\* datetime.MINYEAR and datetime.MAXYEAR: the years date() accepts.
MINYEAR == 1
MAXYEAR == 9999

None == <<>>
Some(v) == <<v>>

\* What date(...) leaves behind when it raises ValueError: no valid date.
DateError == [year |-> 0, month |-> 0, day |-> 0]

is_leap(y) == (y % 4 = 0) /\ ((y % 100 # 0) \/ (y % 400 = 0))

\* datetime._days_in_month: the calendar table date() validates against.
calendar_days(y, m) ==
    IF m = 2 THEN (IF is_leap(y) THEN 29 ELSE 28)
    ELSE IF m \in {4, 6, 9, 11} THEN 30 ELSE 31

\* date(year, month, day): ValueError outside MINYEAR..MAXYEAR, 1..12, 1..dim.
date(y, m, d) ==
    IF /\ y \in MINYEAR..MAXYEAR
       /\ m \in 1..12
       /\ d \in 1..calendar_days(y, m)
    THEN [year |-> y, month |-> m, day |-> d]
    ELSE DateError

RECURSIVE days_before_month(_, _)
days_before_month(y, m) ==
    IF m <= 1 THEN 0 ELSE days_before_month(y, m - 1) + calendar_days(y, m - 1)

days_before_year(y) ==
    (y - 1) * 365 + ((y - 1) \div 4) - ((y - 1) \div 100) + ((y - 1) \div 400)

\* date.toordinal(): the proleptic Gregorian day number, 0001-01-01 being 1.
toordinal(d) == days_before_year(d.year) + days_before_month(d.year, d.month) + d.day

\* date.__le__: dates compare as (year, month, day).
date_le(a, b) ==
    \/ a.year < b.year
    \/ a.year = b.year /\ a.month < b.month
    \/ a.year = b.year /\ a.month = b.month /\ a.day <= b.day

Min(a, b) == IF a <= b THEN a ELSE b

\* ------------------------------------------------------ calendar arithmetic

\* _days_in_month(year, month): the distance in days between the first of the
\* month and the first of the following month.  0 stands for the ValueError
\* raised when either date() call is out of range.
days_in_month(year, month) ==
    LET next_month == IF month = 12 THEN date(year + 1, 1, 1)
                                    ELSE date(year, month + 1, 1)
        first == date(year, month, 1)
    IN  IF next_month = DateError \/ first = DateError
        THEN 0
        ELSE toordinal(next_month) - toordinal(first)

\* _subtract_months(anchor, months); DateError stands for a raised ValueError.
subtract_months(anchor, months) ==
    LET total_months == anchor.year * 12 + (anchor.month - 1) - months
        year == total_months \div 12
        month == (total_months % 12) + 1
        dim == days_in_month(year, month)
    IN  IF dim = 0 THEN DateError
        ELSE date(year, month, Min(anchor.day, dim))

\* ------------------------------------------------------------- _parse_date

Digits == {"0", "1", "2", "3", "4", "5", "6", "7", "8", "9"}

digit_value(c) ==
    CASE c = "0" -> 0 [] c = "1" -> 1 [] c = "2" -> 2 [] c = "3" -> 3
      [] c = "4" -> 4 [] c = "5" -> 5 [] c = "6" -> 6 [] c = "7" -> 7
      [] c = "8" -> 8 [] c = "9" -> 9

char_at(s, i) == SubSeq(s, i, i)

all_digits(s) == \A i \in 1..Len(s) : char_at(s, i) \in Digits

RECURSIVE int_of(_)
int_of(s) ==
    IF Len(s) = 0 THEN 0
    ELSE int_of(SubSeq(s, 1, Len(s) - 1)) * 10 + digit_value(char_at(s, Len(s)))

\* strptime's %m: 1[0-2] | 0[1-9] | [1-9]
month_token(s) ==
    \/ Len(s) = 2 /\ char_at(s, 1) = "1" /\ char_at(s, 2) \in {"0", "1", "2"}
    \/ Len(s) = 2 /\ char_at(s, 1) = "0" /\ char_at(s, 2) \in Digits \ {"0"}
    \/ Len(s) = 1 /\ s \in Digits \ {"0"}

\* strptime's %d: 3[0-1] | [1-2]\d | 0[1-9] | [1-9] | " "[1-9]
day_token(s) ==
    \/ Len(s) = 2 /\ char_at(s, 1) = "3" /\ char_at(s, 2) \in {"0", "1"}
    \/ Len(s) = 2 /\ char_at(s, 1) \in {"1", "2"} /\ char_at(s, 2) \in Digits
    \/ Len(s) = 2 /\ char_at(s, 1) \in {"0", " "} /\ char_at(s, 2) \in Digits \ {"0"}
    \/ Len(s) = 1 /\ s \in Digits \ {"0"}

day_value(s) == IF char_at(s, 1) = " " THEN int_of(SubSeq(s, 2, Len(s))) ELSE int_of(s)

\* _parse_date(value) = datetime.strptime(value, "%Y-%m-%d").date().
\* value is a Python value: None raises TypeError, a str that does not match
\* the format or names no calendar date raises ValueError.
parse_date(value) ==
    IF value = None THEN [err |-> "TypeError", val |-> DateError]
    ELSE
    LET s == value[1]
        n == Len(s)
        seps == {i \in 6..n : char_at(s, i) = "-"}
        shape == /\ n >= 8
                 /\ all_digits(SubSeq(s, 1, 4))
                 /\ char_at(s, 5) = "-"
                 /\ Cardinality(seps) = 1
        j == CHOOSE i \in seps : TRUE
        mm == SubSeq(s, 6, j - 1)
        dd == SubSeq(s, j + 1, n)
    IN  IF ~shape THEN [err |-> "ValueError", val |-> DateError]
        ELSE IF ~(month_token(mm) /\ day_token(dd))
        THEN [err |-> "ValueError", val |-> DateError]
        ELSE LET d == date(int_of(SubSeq(s, 1, 4)), int_of(mm), day_value(dd))
             IN  IF d = DateError THEN [err |-> "ValueError", val |-> DateError]
                 ELSE [err |-> "", val |-> d]

\* ------------------------------------------------------------------ values

Account(id, name, churned, reason, owner) ==
    [account_id |-> id, account_name |-> name, churned_at |-> churned,
     churn_reason |-> reason, owner |-> owner]

ReviewItem(account, notes, action) ==
    [account |-> account, review_notes |-> notes, next_action |-> action]

\* A function's outcome: err = "" and the returned value, or the exception raised.
Return(v) == [err |-> "", val |-> v]
Raise(e) == [err |-> e, val |-> <<>>]

\* Python truthiness of an Optional[str]: None and "" are both false.
truthy(v) == v # None /\ v[1] # ""

\* `v or None`
or_none(v) == IF truthy(v) THEN v ELSE None

\* ------------------------------------------------------------- CSV loader

\* A CSV file as csv.reader sees it: the header line's cells and the cells of
\* every later line (a blank line has no cells).
CsvFile(header, rows) == [header |-> header, rows |-> rows]

last_index(header, key) ==
    LET hits == {i \in 1..Len(header) : header[i] = key}
    IN  IF hits = {} THEN 0 ELSE CHOOSE i \in hits : \A k \in hits : k <= i

\* row.get(key) of a csv.DictReader row: None when the column does not exist
\* or the line is shorter than the header (restval), else the cell.
row_get(header, row, key) ==
    LET i == last_index(header, key)
    IN  IF i = 0 \/ i > Len(row) THEN None ELSE Some(row[i])

\* One loop iteration of load_accounts_from_csv, in evaluation order.
csv_account(header, row) ==
    IF last_index(header, "churned_at") = 0 THEN Raise("KeyError")
    ELSE LET churned_at == parse_date(row_get(header, row, "churned_at"))
         IN  IF churned_at.err # "" THEN Raise(churned_at.err)
             ELSE IF last_index(header, "account_id") = 0 THEN Raise("KeyError")
             ELSE IF last_index(header, "account_name") = 0 THEN Raise("KeyError")
             ELSE Return(Account(row_get(header, row, "account_id"),
                                 row_get(header, row, "account_name"),
                                 churned_at.val,
                                 or_none(row_get(header, row, "churn_reason")),
                                 or_none(row_get(header, row, "owner"))))

RECURSIVE csv_rows(_, _, _, _)
csv_rows(header, rows, i, accounts) ==
    IF i > Len(rows) THEN Return(accounts)
    ELSE IF rows[i] = <<>> THEN csv_rows(header, rows, i + 1, accounts)
    ELSE LET a == csv_account(header, rows[i])
         IN  IF a.err # "" THEN Raise(a.err)
             ELSE csv_rows(header, rows, i + 1, Append(accounts, a.val))

load_accounts_from_csv(csv) == csv_rows(csv.header, csv.rows, 1, <<>>)

\* ------------------------------------------------------------ JSON loader

\* A JSON document: t is its kind, s its text (str, num, member key) and items
\* its children (array elements, object members, a member's value).
JNull == [t |-> "null", s |-> "", items |-> <<>>]
JStr(s) == [t |-> "str", s |-> s, items |-> <<>>]
JNum(s) == [t |-> "num", s |-> s, items |-> <<>>]
JArr(items) == [t |-> "arr", s |-> "", items |-> items]
JObj(members) == [t |-> "obj", s |-> "", items |-> members]
JMember(key, value) == [t |-> "member", s |-> key, items |-> <<value>>]
\* Text json.loads rejects.
JMalformed == [t |-> "malformed", s |-> "", items |-> <<>>]

\* entry.get(key) on a dict: None when the key is absent or maps to null.
\* Member values are null or strings.
entry_has(entry, key) == \E i \in 1..Len(entry.items) : entry.items[i].s = key

entry_get(entry, key) ==
    LET hits == {i \in 1..Len(entry.items) : entry.items[i].s = key}
        i == CHOOSE h \in hits : \A k \in hits : k <= h
        v == entry.items[i].items[1]
    IN  IF hits = {} \/ v.t = "null" THEN None ELSE Some(v.s)

\* What `for entry in data` iterates: the elements of a list, the keys of a
\* dict, the characters of a str.
iterated(data) ==
    IF data.t = "arr" THEN data.items
    ELSE IF data.t = "obj" THEN [i \in 1..Len(data.items) |-> JStr(data.items[i].s)]
    ELSE [i \in 1..Len(data.s) |-> JStr(char_at(data.s, i))]

\* One loop iteration of load_accounts_from_json, in evaluation order.
json_account(entry) ==
    IF entry.t # "obj" THEN Raise("TypeError")
    ELSE IF ~entry_has(entry, "account_id") THEN Raise("KeyError")
    ELSE IF ~entry_has(entry, "account_name") THEN Raise("KeyError")
    ELSE IF ~entry_has(entry, "churned_at") THEN Raise("KeyError")
    ELSE LET churned_at == parse_date(entry_get(entry, "churned_at"))
         IN  IF churned_at.err # "" THEN Raise(churned_at.err)
             ELSE Return(Account(entry_get(entry, "account_id"),
                                 entry_get(entry, "account_name"),
                                 churned_at.val,
                                 entry_get(entry, "churn_reason"),
                                 entry_get(entry, "owner")))

RECURSIVE json_entries(_, _, _)
json_entries(entries, i, accounts) ==
    IF i > Len(entries) THEN Return(accounts)
    ELSE LET a == json_account(entries[i])
         IN  IF a.err # "" THEN Raise(a.err)
             ELSE json_entries(entries, i + 1, Append(accounts, a.val))

load_accounts_from_json(data) ==
    IF data.t = "malformed" THEN Raise("JSONDecodeError")
    ELSE IF data.t \in {"num", "null"} THEN Raise("TypeError")
    ELSE json_entries(iterated(data), 1, <<>>)

\* ----------------------------------------------------------------- selector

\* select_recent_churns(accounts, months=..., as_of=...); as_of None reads the
\* clock (today).  A ValueError of _subtract_months propagates.
select_recent_churns(accounts, months, as_of, today) ==
    LET anchor == IF as_of = None THEN today ELSE as_of[1]
        cutoff == subtract_months(anchor, months)
    IN  IF cutoff = DateError THEN Raise("ValueError")
        ELSE Return(SelectSeq(accounts,
                              LAMBDA account : /\ date_le(cutoff, account.churned_at)
                                               /\ date_le(account.churned_at, anchor)))

\* ------------------------------------------------------------ plan builder

\* review_notes with `is not None` in place of the truth test it performs.
review_notes_is_not_none(account) ==
    IF account.churn_reason # None
    THEN "Review churn reason: " \o account.churn_reason[1] \o "."
    ELSE "Confirm churn reason and validate offboarding completion."

review_notes(account) ==
    IF truthy(account.churn_reason)
    THEN "Review churn reason: " \o account.churn_reason[1] \o "."
    ELSE "Confirm churn reason and validate offboarding completion."

next_action(account) ==
    IF truthy(account.owner)
    THEN "Schedule follow-up with " \o account.owner[1] \o "."
    ELSE "Schedule follow-up with account owner."

build_review_plan(accounts) ==
    [i \in 1..Len(accounts) |->
        ReviewItem(accounts[i], review_notes(accounts[i]), next_action(accounts[i]))]

\* ----------------------------------------------------------------- dispatch

UpperCase == "ABCDEFGHIJKLMNOPQRSTUVWXYZ"
LowerCase == "abcdefghijklmnopqrstuvwxyz"

lower_char(c) ==
    LET hits == {i \in 1..Len(UpperCase) : char_at(UpperCase, i) = c}
    IN  IF hits = {} THEN c ELSE char_at(LowerCase, CHOOSE i \in hits : TRUE)

RECURSIVE lower(_)
lower(s) == IF Len(s) = 0 THEN "" ELSE lower_char(char_at(s, 1)) \o lower(SubSeq(s, 2, Len(s)))

\* Path(name).suffix for a path of one component: the text from the last dot,
\* unless there is none, or it leads or ends the name.
suffix(name) ==
    LET dots == {i \in 1..Len(name) : char_at(name, i) = "."}
        i == CHOOSE d \in dots : \A k \in dots : k <= d
    IN  IF dots = {} THEN ""
        ELSE IF i = 1 \/ i = Len(name) THEN ""
        ELSE SubSeq(name, i, Len(name))

\* loader_for without the .lower(): the suffix compared as written.
loader_for_case_sensitive(name) ==
    IF suffix(name) = ".csv" THEN "load_csv"
    ELSE IF suffix(name) = ".json" THEN "load_json"
    ELSE "failed"

\* The branch run_review takes on input_path.suffix.lower().
loader_for(name) ==
    IF lower(suffix(name)) = ".csv" THEN "load_csv"
    ELSE IF lower(suffix(name)) = ".json" THEN "load_json"
    ELSE "failed"

\* ------------------------------------------------------------------ inputs

D(y, m, d) == [year |-> y, month |-> m, day |-> d]

\* Anchor dates: the spec's examples, month ends, and both ends of the
\* calendar date() supports.
Anchors ==
    {D(2024, 6, 15), D(2024, 3, 31), D(2023, 3, 31), D(2024, 1, 15),
     D(MINYEAR, 1, 31), D(MAXYEAR, 12, 31), D(MAXYEAR, 11, 30)}

Windows == (0 - MaxMonths)..MaxMonths

AccountPool ==
    {Account(Some("a1"), Some("Acme"), D(2024, 5, 1), Some("Pricing"), Some("Jane")),
     Account(Some("a2"), Some("Bolt"), D(2024, 4, 1), None, None),
     Account(Some("a3"), Some("Cato"), D(2024, 3, 15), Some(""), Some("")),
     Account(Some("a4"), Some("Dune"), D(2024, 3, 14), None, Some("Raj")),
     Account(Some("a5"), Some("Echo"), D(2024, 6, 15), Some("Merger"), None),
     Account(Some("a6"), Some("Fern"), D(2024, 6, 16), None, None),
     Account(Some("a7"), Some("Gale"), D(MAXYEAR, 12, 31), None, None),
     Account(Some("a8"), Some("Hale"), D(MINYEAR, 1, 1), Some("Budget"), Some("Li"))}

AccountSeqs == UNION {[1..n -> AccountPool] : n \in 0..MaxAccounts}

Header5 == <<"account_id", "account_name", "churned_at", "churn_reason", "owner">>
Header3 == <<"account_id", "account_name", "churned_at">>

CsvFiles ==
    {CsvFile(<<>>, <<>>),
     CsvFile(Header5, <<>>),
     CsvFile(Header5, << <<"a1", "Acme", "2024-05-01", "Pricing", "Jane">>,
                         <<"a2", "Bolt", "2024-04-01", "", "">> >>),
     CsvFile(Header3, << <<"a3", "Cato", "2024-03-15">>, <<"a4", "Dune", "2024-03-14">>,
                         <<>>,
                         <<"a5", "Echo", "2024-06-15">>, <<"a6", "Fern", "2024-06-16">> >>),
     CsvFile(Header3, << <<"a1", "Acme", "2024-05-01">>, <<"a1", "Acme", "2024-05-01">> >>),
     CsvFile(Header3, << <<"a1", "Acme", "2024-5-1">>, <<"", "", "2024-04-01", "extra">> >>),
     CsvFile(Header3, << <<"a1", "Acme", "2024-05-01">>, <<"a2", "Bolt">> >>),
     CsvFile(Header3, << <<"a1", "Acme", "2024-05-01">>, <<"a2", "Bolt", "">> >>),
     CsvFile(Header3, << <<"a1", "Acme", "2024-05-01">>, <<"a2", "Bolt", "2024-02-30">> >>),
     CsvFile(Header3, << <<"a1", "Acme", "01/05/2024">> >>),
     CsvFile(<<"churned_at", "account_id", "account_name">>,
             << <<"2024-05-01", "a1", "Acme">>, <<"2024-04-01">> >>),
     CsvFile(<<"account_id", "churned_at">>, << <<"a1", "2024-05-01">> >>),
     CsvFile(<<"account_name", "churned_at">>, << <<"Acme", "2024-05-01">> >>),
     CsvFile(<<"account_id", "account_name">>, << <<"a1", "Acme">> >>)}

Entry(id, name, churned) ==
    JObj(<<JMember("account_id", id), JMember("account_name", name),
           JMember("churned_at", churned)>>)

Entry5(id, name, churned, reason, owner) ==
    JObj(<<JMember("account_id", id), JMember("account_name", name),
           JMember("churned_at", churned), JMember("churn_reason", reason),
           JMember("owner", owner)>>)

GoodEntry == Entry(JStr("a1"), JStr("Acme"), JStr("2024-05-01"))

JsonDocs ==
    {JMalformed, JNull, JNum("7"), JStr(""), JStr("ab"), JObj(<<>>),
     JObj(<<JMember("accounts", JNull)>>),
     JArr(<<>>),
     JArr(<<GoodEntry, JNum("7")>>),
     JArr(<<GoodEntry, JNull>>),
     JArr(<<GoodEntry, JStr("a2")>>),
     JArr(<<GoodEntry, JArr(<<>>)>>),
     JArr(<<Entry5(JStr("a1"), JStr("Acme"), JStr("2024-05-01"), JStr("Pricing"), JStr("Jane")),
            Entry5(JStr("a2"), JStr("Bolt"), JStr("2024-04-01"), JNull, JNull)>>),
     JArr(<<Entry5(JStr("a3"), JStr("Cato"), JStr("2024-03-15"), JStr(""), JStr(""))>>),
     JArr(<<Entry(JStr("a3"), JStr("Cato"), JStr("2024-03-15")),
            Entry(JStr("a4"), JStr("Dune"), JStr("2024-03-14")),
            Entry(JStr("a5"), JStr("Echo"), JStr("2024-06-15")),
            Entry(JStr("a6"), JStr("Fern"), JStr("2024-06-16"))>>),
     JArr(<<GoodEntry, GoodEntry>>),
     JArr(<<GoodEntry, Entry(JNull, JStr("Bolt"), JStr("2024-04-01"))>>),
     JArr(<<GoodEntry, Entry(JStr("a2"), JNull, JStr("2024-04-01"))>>),
     JArr(<<GoodEntry, Entry(JStr("a2"), JStr("Bolt"), JNull)>>),
     JArr(<<GoodEntry, Entry(JStr("a2"), JStr("Bolt"), JStr("2024-02-30"))>>),
     JArr(<<GoodEntry, JObj(<<JMember("account_id", JStr("a2")),
                              JMember("churned_at", JStr("2024-04-01"))>>)>>),
     JArr(<<GoodEntry, JObj(<<JMember("account_name", JStr("Bolt")),
                              JMember("churned_at", JStr("2024-04-01"))>>)>>),
     JArr(<<GoodEntry, JObj(<<JMember("account_id", JStr("a2")),
                              JMember("account_name", JStr("Bolt"))>>)>>)}

\* A file on disk: its name and what each reader makes of its text.  CSV text
\* is not JSON; one line of JSON text is, to csv.DictReader, a header without
\* rows.
File(name, csv, json) == [name |-> name, csv |-> csv, json |-> json]

FileNames ==
    {"churn.csv", "CHURN.CSV", "churn.json", "Churn.Json",
     "churn.txt", "churn.csv.bak", "csv", ".json", "churn.jsonl"}

Files ==
    {File(n, c, JMalformed) : n \in FileNames, c \in CsvFiles}
    \cup {File(n, CsvFile(<<"json">>, <<>>), j) : n \in FileNames, j \in JsonDocs \ {JMalformed}}

NoFile == File("", CsvFile(<<>>, <<>>), JMalformed)

\* The clock readings date.today() returns.
Todays == {D(2024, 6, 15), D(2024, 7, 31)}

\* ------------------------------------------------------------------- state

VARIABLES
    call,       \* the operation the caller invokes
    input_path, \* run_review's input file
    months,     \* the lookback window passed (None: the parameter's default)
    as_of,      \* the anchor date the caller asks for (None: the current date)
    today,      \* what date.today() returns
    accounts,   \* the loaded accounts / select_recent_churns' input
    recent,     \* select_recent_churns' result / build_review_plan's input
    plan,       \* build_review_plan's result
    cutoff,     \* _subtract_months' result, when called on its own
    err,        \* the exception that ended the call ("" while there is none)
    log,        \* the stages entered so far, in order
    pc          \* the call's position

vars == <<call, input_path, months, as_of, today, accounts, recent, plan, cutoff,
          err, log, pc>>

\* The default of select_recent_churns' months parameter.
SELECT_DEFAULT_MONTHS == 3
\* The default of run_review's months parameter.
RUN_REVIEW_DEFAULT_MONTHS == 3

InitRunReview ==
    /\ call = "run_review"
    /\ input_path \in Files
    /\ months \in {None} \cup {Some(m) : m \in {0, 1, MaxMonths}}
    /\ as_of \in {None, Some(D(2024, 7, 31))}
    /\ today \in Todays
    /\ accounts = <<>> /\ recent = <<>>
    /\ pc = "start"

InitSelect ==
    /\ call = "select_recent_churns"
    /\ input_path = NoFile
    /\ months \in {Some(m) : m \in Windows} \/ months = None
    /\ \/ as_of \in {Some(d) : d \in Anchors} /\ today = D(2024, 6, 15)
       \/ as_of = None /\ today \in Todays
    /\ accounts \in AccountSeqs /\ recent = <<>>
    /\ pc = "select"

InitBuild ==
    /\ call = "build_review_plan"
    /\ input_path = NoFile
    /\ months = None /\ as_of = None /\ today = D(2024, 6, 15)
    /\ accounts = <<>> /\ recent \in AccountSeqs
    /\ pc = "build"

InitSubtract ==
    /\ call = "_subtract_months"
    /\ input_path = NoFile
    /\ months \in {Some(m) : m \in Windows}
    /\ as_of \in {Some(d) : d \in Anchors} /\ today = D(2024, 6, 15)
    /\ accounts = <<>> /\ recent = <<>>
    /\ pc = "subtract"

Init ==
    /\ InitRunReview \/ InitSelect \/ InitBuild \/ InitSubtract
    /\ plan = <<>> /\ cutoff = None /\ err = "" /\ log = <<>>

\* ----------------------------------------------------------------- actions

\* _subtract_months(as_of, months), called on its own.
SubtractMonths ==
    /\ pc = "subtract"
    /\ LET r == subtract_months(as_of[1], months[1])
       IN  /\ cutoff' = IF r = DateError THEN None ELSE Some(r)
           /\ err' = IF r = DateError THEN "ValueError" ELSE ""
           /\ pc' = IF r = DateError THEN "failed" ELSE "done"
    /\ log' = Append(log, "_subtract_months")
    /\ UNCHANGED <<call, input_path, months, as_of, today, accounts, recent, plan>>

\* run_review, lines 118-123: the branch on the suffix.
Dispatch ==
    /\ pc = "start"
    /\ pc' = loader_for(input_path.name)
    /\ err' = IF pc' = "failed" THEN "ValueError: Supported input formats" ELSE ""
    /\ UNCHANGED <<call, input_path, months, as_of, today, accounts, recent, plan,
                   cutoff, log>>

Loaded(r) ==
    /\ accounts' = IF r.err = "" THEN r.val ELSE accounts
    /\ err' = r.err
    /\ pc' = IF r.err = "" THEN "select" ELSE "failed"

LoadCsv ==
    /\ pc = "load_csv"
    /\ Loaded(load_accounts_from_csv(input_path.csv))
    /\ log' = Append(log, "load_accounts_from_csv")
    /\ UNCHANGED <<call, input_path, months, as_of, today, recent, plan, cutoff>>

LoadJson ==
    /\ pc = "load_json"
    /\ Loaded(load_accounts_from_json(input_path.json))
    /\ log' = Append(log, "load_accounts_from_json")
    /\ UNCHANGED <<call, input_path, months, as_of, today, recent, plan, cutoff>>

\* The months and as_of select_recent_churns receives.  run_review has a
\* months parameter and no as_of parameter: it passes months=months and lets
\* as_of default, whatever anchor its caller had in mind.
months_passed ==
    IF months # None THEN months[1]
    ELSE IF call = "run_review" THEN RUN_REVIEW_DEFAULT_MONTHS
    ELSE SELECT_DEFAULT_MONTHS

as_of_passed == IF call = "run_review" THEN None ELSE as_of

Select ==
    /\ pc = "select"
    /\ LET r == select_recent_churns(accounts, months_passed, as_of_passed, today)
       IN  /\ recent' = IF r.err = "" THEN r.val ELSE recent
           /\ err' = r.err
           /\ pc' = IF r.err # "" THEN "failed"
                    ELSE IF call = "run_review" THEN "build" ELSE "done"
    /\ log' = Append(log, "select_recent_churns")
    /\ UNCHANGED <<call, input_path, months, as_of, today, accounts, plan, cutoff>>

Build ==
    /\ pc = "build"
    /\ plan' = build_review_plan(recent)
    /\ pc' = "done"
    /\ log' = Append(log, "build_review_plan")
    /\ UNCHANGED <<call, input_path, months, as_of, today, accounts, recent, cutoff, err>>

Next == SubtractMonths \/ Dispatch \/ LoadCsv \/ LoadJson \/ Select \/ Build

Spec == Init /\ [][Next]_vars

\* ------------------------------------------------- vocabulary of the claims

Finished == pc \in {"done", "failed"}

\* The anchor and the window a call was asked to use.
anchor_asked == IF as_of = None THEN today ELSE as_of[1]
window_asked == months_passed

month_index(d) == d.year * 12 + (d.month - 1)

\* The date `window` whole months before `anchor`, stated from the calendar:
\* same month index minus window, day clamped to the month's last day.
months_before(anchor, window) ==
    LET index == month_index(anchor) - window
        y == CHOOSE k \in (0 - 1)..(MAXYEAR + 2) : k * 12 <= index /\ index < (k + 1) * 12
        m == index - y * 12 + 1
    IN  D(y, m, Min(anchor.day, calendar_days(y, m)))

valid_date(d) ==
    /\ d.year \in MINYEAR..MAXYEAR
    /\ d.month \in 1..12
    /\ d.day \in 1..calendar_days(d.year, d.month)

before_or_on(a, b) == <<a.year, a.month, a.day>> = <<b.year, b.month, b.day>>
                      \/ toordinal(a) < toordinal(b)

RECURSIVE window_subsequence(_, _, _)
window_subsequence(accs, lo, hi) ==
    IF accs = <<>> THEN <<>>
    ELSE LET rest == window_subsequence(Tail(accs), lo, hi)
             a == Head(accs)
         IN  IF before_or_on(lo, a.churned_at) /\ before_or_on(a.churned_at, hi)
             THEN <<a>> \o rest ELSE rest

\* C1: for every account sequence, window >= 0 and anchor, a call of
\* select_recent_churns returns exactly the input's ordered subsequence of
\* accounts with cutoff <= churned_at <= anchor, cutoff being the anchor moved
\* back by the window.
C1_SelectReturnsWindow ==
    (call = "select_recent_churns" /\ Finished /\ window_asked >= 0)
    => /\ err = ""
       /\ recent = window_subsequence(accounts,
                                      subtract_months(anchor_asked, window_asked),
                                      anchor_asked)

\* C2: for every anchor and window >= 0, _subtract_months returns the valid
\* date whose month index is the anchor's minus the window and whose day is
\* the anchor's day clamped to that month's last day.
C2_SubtractMonthsContract ==
    (call = "_subtract_months" /\ Finished /\ window_asked >= 0)
    => /\ err = ""
       /\ cutoff # None
       /\ valid_date(cutoff[1])
       /\ month_index(cutoff[1]) = month_index(anchor_asked) - window_asked
       /\ cutoff[1] = months_before(anchor_asked, window_asked)

\* C3 as stated: build_review_plan returns one item per account, in order,
\* with the reason / owner text whenever the field is not None (an empty
\* string counting as present), the fixed texts otherwise.
notes_if_not_none(a) ==
    IF a.churn_reason # None
    THEN "Review churn reason: " \o a.churn_reason[1] \o "."
    ELSE "Confirm churn reason and validate offboarding completion."

action_if_not_none(a) ==
    IF a.owner # None
    THEN "Schedule follow-up with " \o a.owner[1] \o "."
    ELSE "Schedule follow-up with account owner."

Built == pc = "done" /\ call \in {"build_review_plan", "run_review"}

filled(v) == v \notin {None, Some("")}

CsvNames == {"churn.csv", "CHURN.CSV"}
JsonNames == {"churn.json", "Churn.Json"}

C4_DispatchByExtension ==
    (call = "run_review" /\ pc # "start")
    => /\ input_path.name \in CsvNames
            => /\ pc # "load_json"
               /\ err # "ValueError: Supported input formats"
               /\ pc # "load_csv" => (log # <<>> /\ log[1] = "load_accounts_from_csv")
       /\ input_path.name \in JsonNames
            => /\ pc # "load_csv"
               /\ err # "ValueError: Supported input formats"
               /\ pc # "load_json" => (log # <<>> /\ log[1] = "load_accounts_from_json")
       /\ input_path.name \notin CsvNames \cup JsonNames
            => /\ pc = "failed"
               /\ err = "ValueError: Supported input formats"
               /\ log = <<>>
               /\ accounts = <<>> /\ recent = <<>> /\ plan = <<>>

C4_Witness ==
    /\ call = "run_review" /\ input_path.name = "churn.csv.bak"
    /\ input_path.csv.rows # <<>>
    /\ pc = "failed" /\ log = <<>>

\* C5: load_accounts_from_json fails, returning no list, whenever the document
\* is not an array or an element of the array is not an object.
array_of_objects(doc) ==
    doc.t = "arr" /\ \A i \in 1..Len(doc.items) : doc.items[i].t = "obj"

json_loader_ran == call = "run_review" /\ log # <<>> /\ log[1] = "load_accounts_from_json"
csv_loader_ran == call = "run_review" /\ log # <<>> /\ log[1] = "load_accounts_from_csv"
load_failed == pc = "failed" /\ Len(log) = 1

C5_NotAnArrayOfObjectsFails ==
    (json_loader_ran /\ ~array_of_objects(input_path.json)) => load_failed

\* C6: a record without account_id, account_name or churned_at (a short CSV
\* row and a null JSON field included), or with a churned_at that is no date,
\* fails the whole load; so every loaded Account has an id, a name and a
\* valid churn date.
Required == {"account_id", "account_name", "churned_at"}

csv_record_defective(csv, row) ==
    \/ \E k \in Required : row_get(csv.header, row, k) = None
    \/ parse_date(row_get(csv.header, row, "churned_at")).err # ""

json_record_defective(entry) ==
    \/ \E k \in Required : entry_get(entry, k) = None
    \/ parse_date(entry_get(entry, "churned_at")).err # ""

C6_DefectiveRecordFailsLoad ==
    /\ csv_loader_ran
         => /\ (\E i \in 1..Len(input_path.csv.rows) :
                   /\ input_path.csv.rows[i] # <<>>
                   /\ csv_record_defective(input_path.csv, input_path.csv.rows[i]))
               => load_failed
    /\ (json_loader_ran /\ array_of_objects(input_path.json))
         => /\ (\E i \in 1..Len(input_path.json.items) :
                   json_record_defective(input_path.json.items[i]))
               => load_failed
    /\ \A i \in 1..Len(accounts) :
          /\ accounts[i].account_id # None
          /\ accounts[i].account_name # None
          /\ valid_date(accounts[i].churned_at)

\* C7: in every Account a loader returns, churn_reason and owner are None or
\* a non-empty string, never the empty string.
C7_OptionalsNormalised ==
    (csv_loader_ran \/ json_loader_ran)
    => \A i \in 1..Len(accounts) :
          /\ accounts[i].churn_reason # Some("")
          /\ accounts[i].owner # Some("")

\* C8: once loading has succeeded, run_review returns the review plan of the
\* loaded accounts that churned within the window before the anchor its
\* caller asked for (the current date when none was asked for), in file order.
C8_RunReviewUsesAnchor ==
    (call = "run_review" /\ Finished /\ Len(log) >= 2)
    => /\ pc = "done"
       /\ plan = build_review_plan(
                    window_subsequence(accounts,
                                       months_before(anchor_asked, window_asked),
                                       anchor_asked))

\* C9: with valid accounts, any anchor of the calendar and any window >= 0,
\* selection and plan building end with a result and raise nothing.
C9_DownstreamNeverFails ==
    (log # <<>> /\ log[Len(log)] \in {"select_recent_churns", "build_review_plan"}
       /\ window_asked >= 0)
    => err = "" /\ pc # "failed"

\* C10: for a negative window the cutoff lies strictly after the anchor and
\* the selection is empty; for a window >= 0 the cutoff is not after the
\* anchor and every account that churned on the anchor date is selected.
C10_CutoffSideOfAnchor ==
    /\ (call = "_subtract_months" /\ Finished)
         => /\ cutoff # None
            /\ window_asked < 0 => ~before_or_on(cutoff[1], anchor_asked)
            /\ window_asked >= 0 => before_or_on(cutoff[1], anchor_asked)
    /\ (call = "select_recent_churns" /\ Finished)
         => /\ pc = "done"
            /\ window_asked < 0 => recent = <<>>
            /\ window_asked >= 0 =>
                 \A i \in 1..Len(accounts) :
                    accounts[i].churned_at = anchor_asked
                    => \E k \in 1..Len(recent) : recent[k] = accounts[i]

\* ------------------------------------------- where a cutoff is computed

\* Whenever select_recent_churns returns, for any window, what it returns is
\* the inclusive, ordered window subsequence; it raises exactly when
\* _subtract_months does.
SelectIsWindowWhereItReturns ==
    (call = "select_recent_churns" /\ Finished)
    => LET c == subtract_months(anchor_asked, window_asked)
       IN  /\ (pc = "failed") = (c = DateError)
           /\ pc = "done" => recent = window_subsequence(accounts, c, anchor_asked)

\* Whenever _subtract_months returns, it returns the calendar's date, on the
\* side of the anchor the window's sign says; it raises exactly when the
\* target month lies outside years MINYEAR..MAXYEAR or is December MAXYEAR.
SubtractMonthsWhereItReturns ==
    (call = "_subtract_months" /\ Finished)
    => LET index == month_index(anchor_asked) - window_asked
       IN  /\ (pc = "failed") = \/ index < MINYEAR * 12
                                \/ index >= MAXYEAR * 12 + 11
           /\ pc = "done" =>
                /\ cutoff[1] = months_before(anchor_asked, window_asked)
                /\ valid_date(cutoff[1])
                /\ window_asked < 0 => ~before_or_on(cutoff[1], anchor_asked)
                /\ window_asked >= 0 => before_or_on(cutoff[1], anchor_asked)

\* Without an anchor asked for, run_review's plan is the plan of the window
\* before the current date, whenever the selector returns.
RunReviewWithoutAnchor ==
    (call = "run_review" /\ pc = "done" /\ as_of = None)
    => plan = build_review_plan(
                 window_subsequence(accounts, months_before(today, window_asked), today))

====
